---- MODULE Spec2Model ----
(***************************************************************************)
(* Model of the LinkCard component of orx-docs                            *)
(* (src/components/link-card.tsx).                                         *)
(*                                                                         *)
(* LinkCard is a function component: a parent hands it a props object and  *)
(* each call returns an element tree.  The state is the props object the   *)
(* parent currently supplies, the element tree returned by the last call,  *)
(* and whether the component still has to be rendered for those props.     *)
(*                                                                         *)
(* JavaScript values are modelled as follows.  A string is a sequence of   *)
(* characters.  A React node is a record with a "kind" field: undefined,   *)
(* null, or an element with a type, a props record and a children          *)
(* sequence.  A props object is a function whose domain is the set of keys *)
(* the caller wrote; reading a key that is not there gives undefined.      *)
(***************************************************************************)
EXTENDS Naturals, Sequences, FiniteSets

VARIABLES props, output, pc

vars == <<props, output, pc>>

\* ---------------------------------------------------------------- bounds
MaxLen == 1        \* longest path / title string
MaxIcons == 2      \* number of distinct caller-supplied icon elements

Chars == {"/", "a"}

RECURSIVE StringsOfLen(_)
StringsOfLen(n) ==
    IF n = 0 THEN {<<>>}
    ELSE {Append(s, c) : s \in StringsOfLen(n - 1), c \in Chars}

Strings == UNION {StringsOfLen(n) : n \in 0..MaxLen}

\* ------------------------------------------------------------ JS values
Undefined == [kind |-> "undefined"]
Null == [kind |-> "null"]

Element(type, elProps, children) ==
    [kind |-> "element", type |-> type, props |-> elProps, children |-> children]

\* const defaultIcon = (<svg ...><path ... /></svg>)
defaultIcon ==
    Element("svg",
            [xmlns |-> "http://www.w3.org/2000/svg",
             fill |-> "none",
             viewBox |-> "0 0 24 24",
             strokeWidth |-> "1.5",
             stroke |-> "currentColor",
             className |-> "w-6 h-6"],
            <<Element("path",
                      [strokeLinecap |-> "round",
                       strokeLinejoin |-> "round",
                       d |-> "M8.25 4.5l7.5 7.5-7.5 7.5"],
                      <<>>)>>)

\* Icons a caller may write: any React.ReactNode.
CallerIcon(i) == Element("img", [src |-> i], <<>>)

IconValues ==
    {Undefined, Null, defaultIcon} \cup {CallerIcon(i) : i \in 1..MaxIcons}

\* The props objects the declared type { icon?: ReactNode; path; title } admits:
\* the icon key may be absent, or present with any ReactNode (undefined included).
PropsWithoutIcon ==
    {[path |-> p, title |-> t] : p \in Strings, t \in Strings}

PropsWithIcon ==
    {[icon |-> i, path |-> p, title |-> t] :
        i \in IconValues, p \in Strings, t \in Strings}

PropsSet == PropsWithoutIcon \cup PropsWithIcon

\* Property read o[k]: a missing key reads as undefined.
Get(o, k) == IF k \in DOMAIN o THEN o[k] ELSE Undefined

\* Destructuring default `name = dflt`: the default is taken exactly when the
\* value read is undefined (null does not trigger it).
WithDefault(v, dflt) == IF v = Undefined THEN dflt ELSE v

\* An element written without attributes has an empty props object.
NoProps == <<>>

\* <></>
EmptyFragment == Element("Fragment", NoProps, <<>>)

\* LinkCard as it would read with `icon ?? defaultIcon` (or `icon || defaultIcon`)
\* in place of the destructuring default: a null icon is replaced too.
LinkCardNullishDefault(p) ==
    LET icon == IF Get(p, "icon") \in {Undefined, Null}
                THEN defaultIcon ELSE Get(p, "icon")
    IN  Element("Cards", NoProps,
            <<Element("Card",
                      [icon |-> icon,
                       title |-> Get(p, "title"),
                       href |-> Get(p, "path")],
                      <<EmptyFragment>>)>>)

\* export const LinkCard = ({ icon = defaultIcon, path, title }) =>
\*   <Cards><Card icon={icon} title={title} href={path}><></></Card></Cards>
LinkCard(p) ==
    LET icon == WithDefault(Get(p, "icon"), defaultIcon)
        path == Get(p, "path")
        title == Get(p, "title")
    IN  Element("Cards", NoProps,
            <<Element("Card",
                      [icon |-> icon, title |-> title, href |-> path],
                      <<EmptyFragment>>)>>)

\* ---------------------------------------------------------------- actions
\* After construction the parent has chosen props and nothing is rendered yet.
Init ==
    /\ props \in PropsSet
    /\ output = Undefined
    /\ pc = "pending"

\* The framework calls the component with the current props.
Render ==
    /\ pc = "pending"
    /\ output' = LinkCard(props)
    /\ pc' = "rendered"
    /\ UNCHANGED props

\* The parent re-renders with a new props object; the previous output stays
\* on screen until the component is called again.
Update ==
    /\ pc = "rendered"
    /\ \E np \in PropsSet : props' = np
    /\ pc' = "pending"
    /\ UNCHANGED output

Next == Render \/ Update

Spec == Init /\ [][Next]_vars

\* ----------------------------------------------------------------- claims
IconPassed == Get(props, "icon") # Undefined

TheCard == output.children[1]

\* C10: for every combination of props, the rendered tree is one Cards
\* container holding exactly one Card; the Card's href is the path prop, its
\* title is the title prop, its icon is the icon prop when one is passed and
\* the module-level default chevron when the icon is omitted (absent, or
\* undefined, which the destructuring cannot tell apart), and the Card's only
\* child is an empty fragment.
LinkCardRendersOneCard ==
    pc = "rendered" =>
        /\ output.kind = "element"
        /\ output.type = "Cards"
        /\ Len(output.children) = 1
        /\ TheCard.kind = "element"
        /\ TheCard.type = "Card"
        /\ TheCard.props.href = props.path
        /\ TheCard.props.title = props.title
        /\ (IconPassed => TheCard.props.icon = props.icon)
        /\ (~IconPassed => TheCard.props.icon = defaultIcon)
        /\ Len(TheCard.children) = 1
        /\ TheCard.children[1].type = "Fragment"
        /\ TheCard.children[1].children = <<>>

\* A caller-supplied icon other than the default, with path and title that
\* differ, has been rendered.
WitnessCustomIcon ==
    /\ pc = "rendered"
    /\ "icon" \in DOMAIN props
    /\ props.icon = CallerIcon(1)
    /\ props.path = <<"/">>
    /\ props.title = <<"a">>
    /\ TheCard.props.icon = CallerIcon(1)

\* A null icon was passed and null, not the default, has been rendered.
WitnessNullIcon ==
    /\ pc = "rendered"
    /\ "icon" \in DOMAIN props
    /\ props.icon = Null
    /\ TheCard.props.icon = Null

\* The icon key was left out and the default chevron has been rendered.
WitnessOmittedIcon ==
    /\ pc = "rendered"
    /\ "icon" \notin DOMAIN props
    /\ TheCard.props.icon = defaultIcon

====
